---- MODULE Spec2Model ----
(***************************************************************************)
(* Model of src/agent/agent.py (CortensorValidationAgent).                 *)
(*                                                                         *)
(* Two halves share one state:                                             *)
(*   - the local scoring pipeline: calculate_semantic_similarity,          *)
(*     detect_outliers, calculate_consensus_score,                         *)
(*     generate_evidence_bundle;                                           *)
(*   - the orchestration: validate_output rounds run as asyncio tasks,     *)
(*     the monitor_repository loop, validation_history.                    *)
(*                                                                         *)
(* Arithmetic.  Similarities are fixed-point integers in units of 1/Scale  *)
(* and every float expression of the source is evaluated exactly as a      *)
(* rational: int(x) is truncation toward zero of a fraction, and the two   *)
(* places that take a square root (the standard deviations) are compared   *)
(* through their squares.  IEEE division by zero is modelled by what numpy *)
(* produces: 0/0 is NaN, x/0 is infinite, and every comparison with NaN is *)
(* False.  Rounding error of binary floating point is not modelled.        *)
(***************************************************************************)
EXTENDS Integers, Sequences, FiniteSets, TLC

\* ==================== Configuration ====================
VALIDATION_THRESHOLD == 70
MIN_WORKERS == 3

\* ==================== Bounds and input sets ====================
\* fixed-point unit: a similarity s is stored as s * Scale
Scale == 10
\* largest number of responses fed through the embedder route
MaxN == 6
\* largest matrix handed directly to detect_outliers / calculate_consensus_score
MaxRawN == 4
\* number of validate_output calls made on the agent
MaxRounds == 2
\* number of workers of the inference network that may answer a round
MaxWorkers == 3

\* response texts: a1 and a2 are paraphrases, b is unrelated
Texts == {"a1", "a2", "b"}
\* inference_time_ms values
Times == {0, 100}
\* off-diagonal entries of directly supplied matrices (-1.0 and 0.5)
RawLevels == {-10, 5}
\* trustScore values the validation service may answer with
Scores == {50, 69, 70}
\* the evidenceBundle part of a /validate answer
EvidenceBundles == {[outlierCount |-> 0, avgSimilarity |-> 9, ipfsCid |-> "Qm1"]}

None == "None"

VARIABLES
    \* ---- scoring pipeline ----
    phase,              \* position in the pipeline
    responses,          \* List[WorkerResponse]
    similarity_matrix,  \* NxN matrix, a sequence of rows
    outlier_flags,      \* List[bool]
    flags_source,       \* who produced outlier_flags
    score,              \* components and result of calculate_consensus_score
    zero_division,      \* sites at which a division by a zero divisor was evaluated
    bundle,             \* result of generate_evidence_bundle
    \* ---- orchestration ----
    pc,                 \* per validate_output call: where the coroutine is
    validation_id,      \* per call: id answered by /infer
    arrived,            \* per call: worker responses the network has collected
    posts,              \* per call: number of POSTs sent to /infer and /validate
    returned,           \* per call: the TrustScore returned
    validation_history, \* self.validation_history
    dispatched,         \* calls in the order their /infer request was answered
    completed,          \* calls in the order their scoring completed
    monitor,            \* monitor_repository: position, current call, cause of exit
    alerts              \* alerts delivered by _send_alert

scoreVars == <<phase, responses, similarity_matrix, outlier_flags, flags_source,
               score, zero_division, bundle>>
agentVars == <<pc, validation_id, arrived, posts, returned, validation_history,
               dispatched, completed, monitor, alerts>>
vars == <<phase, responses, similarity_matrix, outlier_flags, flags_source,
          score, zero_division, bundle,
          pc, validation_id, arrived, posts, returned, validation_history,
          dispatched, completed, monitor, alerts>>

\* ==================== Arithmetic helpers ====================
\* Python int() of the fraction num/den, den > 0: truncation toward zero
IntTrunc(num, den) ==
    IF num >= 0 THEN num \div den ELSE -((-num) \div den)

Min(a, b) == IF a <= b THEN a ELSE b

\* sum of f[i] over i in 1..n
RECURSIVE SumTo(_, _)
SumTo(f, n) == IF n = 0 THEN 0 ELSE f[n] + SumTo(f, n - 1)

\* sum of f[i] over the index sequence idx
RECURSIVE SumOver(_, _, _)
SumOver(f, idx, k) == IF k = 0 THEN 0 ELSE f[idx[k]] + SumOver(f, idx, k - 1)

\* ==================== Data models ====================
WorkerResponse(text, t) ==
    [response |-> text, inference_time_ms |-> t]

\* ==================== calculate_semantic_similarity ====================
\* cosine similarity of the embeddings of two texts, in units of 1/Scale
CosineSimilarity(x, y) ==
    IF x = y THEN Scale
    ELSE IF x # "b" /\ y # "b" THEN 9
    ELSE 1

calculate_semantic_similarity(texts) ==
    [i \in 1..Len(texts) |-> [j \in 1..Len(texts) |-> CosineSimilarity(texts[i], texts[j])]]

\* ==================== detect_outliers ====================
\* n * Scale * avg_similarities: the row sums of the matrix
AvgSimilarities(M) ==
    [i \in 1..Len(M) |-> SumTo(M[i], Len(M))]

\* n^2 * Scale * (avg_similarities - mean_similarity)
Deviations(M) ==
    LET n == Len(M)
        rows == AvgSimilarities(M)
        total == SumTo(rows, n)
    IN  [i \in 1..n |-> n * rows[i] - total]

\* n^5 * Scale^2 * std_similarity^2: the sum of the squared deviations
SumSqDev(M) ==
    LET dev == Deviations(M)
    IN  SumTo([k \in 1..Len(M) |-> dev[k] * dev[k]], Len(M))

\* z_scores squared, each as the fraction num/den; den = 0 iff std_similarity = 0
ZScoresSq(M) ==
    LET n == Len(M)
        dev == Deviations(M)
        ss == SumSqDev(M)
    IN  [i \in 1..n |-> [num |-> n * dev[i] * dev[i], den |-> ss]]

\* z > 2.0 on a z-score given by its square, with numpy's division by zero:
\* 0/0 = NaN and NaN > 2.0 is False; x/0 = inf and inf > 2.0 is True
ZExceedsNaNTrue(z) ==
    IF z.den = 0 THEN TRUE ELSE z.num > 4 * z.den

ZExceedsCutoffOne(z) ==
    IF z.den = 0 THEN z.num # 0 ELSE z.num > z.den

ZExceeds(z) ==
    IF z.den = 0 THEN z.num # 0 ELSE z.num > 4 * z.den

detect_outliers(M) ==
    LET z == ZScoresSq(M)
    IN  [i \in 1..Len(M) |-> ZExceeds(z[i])]

\* the division (avg_similarities - mean_similarity) / std_similarity is
\* evaluated unconditionally; its divisor is zero iff all row means are equal
ZScoreDividesByZero(M) == SumSqDev(M) = 0

\* ==================== calculate_consensus_score ====================
\* valid_indices: the non-outlier indices, ascending
RECURSIVE ValidIndices(_, _)
ValidIndices(flags, n) ==
    IF n = 0 THEN <<>>
    ELSE IF flags[n] THEN ValidIndices(flags, n - 1)
         ELSE Append(ValidIndices(flags, n - 1), n)

\* sum of similarity_matrix[np.ix_(valid, valid)]
SubMatrixSum(M, valid) ==
    LET k == Len(valid)
        rows == [a \in 1..k |-> SumOver(M[valid[a]], valid, k)]
    IN  SumTo(rows, k)

\* min(60, int(avg_similarity * 60)), avg_similarity = sum / (k^2 * Scale)
SimilarityScore(M, valid) ==
    Min(60, IntTrunc(60 * SubMatrixSum(M, valid), Len(valid) * Len(valid) * Scale))

\* int(len(valid_indices) / len(responses) * 20)
ConsensusScore(valid, resp) ==
    IntTrunc(20 * Len(valid), Len(resp))

\* max(0, int(10 * (1 - time_cv))) with time_cv = time_std / time_mean if
\* time_mean > 0 else 1.  With P the sum of the valid times and
\* Q = k * sum(t^2) - P^2, time_cv^2 = Q / P^2, so for 0 <= j <= 10
\*   j <= 10 * (1 - time_cv)  <=>  100 * Q <= (10 - j)^2 * P^2
TimeScore(resp, valid) ==
    LET k == Len(valid)
        t == [i \in 1..Len(resp) |-> resp[i].inference_time_ms]
        t2 == [i \in 1..Len(resp) |-> t[i] * t[i]]
        P == SumOver(t, valid, k)
        Q == k * SumOver(t2, valid, k) - P * P
        fits == {j \in 0..10 : 100 * Q <= (10 - j) * (10 - j) * P * P}
    IN  IF P > 0
        THEN IF fits = {} THEN 0 ELSE CHOOSE j \in fits : \A h \in fits : h <= j
        ELSE 0

\* time_std / time_mean is evaluated only under the guard time_mean > 0
TimeCvDividesByZero(resp, valid) ==
    LET t == [i \in 1..Len(resp) |-> resp[i].inference_time_ms]
        P == SumOver(t, valid, Len(valid))
    IN  P > 0 /\ P = 0

ReputationScore == 10

calculate_consensus_score(resp, M, flags) ==
    LET valid == ValidIndices(flags, Len(flags))
    IN  IF Len(valid) = 0
        THEN [fail_closed |-> TRUE, valid_count |-> 0, similarity_score |-> 0,
              consensus_score |-> 0, time_score |-> 0, reputation_score |-> 0,
              result |-> 0]
        ELSE LET s == SimilarityScore(M, valid)
                 c == ConsensusScore(valid, resp)
                 t == TimeScore(resp, valid)
             IN  [fail_closed |-> FALSE, valid_count |-> Len(valid),
                  similarity_score |-> s, consensus_score |-> c,
                  time_score |-> t, reputation_score |-> ReputationScore,
                  result |-> Min(100, s + c + t + ReputationScore)]

\* ==================== generate_evidence_bundle ====================
CountTrue(flags) == Cardinality({i \in 1..Len(flags) : flags[i]})

generate_evidence_bundle(resp, M, flags, trust_score) ==
    [version |-> "1.0.0",
     trustScore |-> trust_score,
     consensusReached |-> (trust_score >= VALIDATION_THRESHOLD),
     workerCount |-> Len(resp),
     inferenceTimeMs |-> [i \in 1..Len(resp) |-> resp[i].inference_time_ms],
     semanticSimilarityMatrix |-> M,
     outlierFlags |-> flags,
     matrixSum |-> SumTo(AvgSimilarities(M), Len(M)),
     outlierCount |-> CountTrue(flags),
     threshold |-> VALIDATION_THRESHOLD]

\* ==================== Scoring pipeline: inputs ====================
Rounds == 1..MaxRounds

\* response lists of length n with texts from T
ResponseLists(n, T) ==
    {[i \in 1..n |-> WorkerResponse(tx[i], tm[i])] :
        tx \in [1..n -> T], tm \in [1..n -> Times]}

\* symmetric n x n matrices with diagonal 1.0 and off-diagonal entries in RawLevels
SymmetricMatrices(n) ==
    LET pairs == {p \in (1..n) \X (1..n) : p[1] < p[2]}
    IN  {[i \in 1..n |-> [j \in 1..n |->
            IF i = j THEN Scale
            ELSE IF i < j THEN e[<<i, j>>] ELSE e[<<j, i>>]]] :
         e \in [pairs -> RawLevels]}

\* the orchestration half at rest
AgentIdle ==
    /\ pc = [r \in Rounds |-> "idle"]
    /\ validation_id = [r \in Rounds |-> None]
    /\ arrived = [r \in Rounds |-> 0]
    /\ posts = [r \in Rounds |-> [infer |-> 0, validate |-> 0]]
    /\ returned = [r \in Rounds |-> <<>>]
    /\ validation_history = <<>>
    /\ dispatched = <<>>
    /\ completed = <<>>
    /\ monitor = [at |-> "off", call |-> 0, error |-> None]
    /\ alerts = <<>>

\* the scoring half at rest
ScoringIdle ==
    /\ phase = "off"
    /\ responses = <<>>
    /\ similarity_matrix = <<>>
    /\ outlier_flags = <<>>
    /\ flags_source = None
    /\ score = <<>>
    /\ zero_division = {}
    /\ bundle = <<>>

\* a caller holding response texts, about to run the whole pipeline
InitPipeline ==
    /\ phase = "input"
    /\ \E n \in 1..MaxN : responses \in ResponseLists(n, Texts)
    /\ similarity_matrix = <<>>
    /\ outlier_flags = <<>>
    /\ flags_source = None
    /\ score = <<>>
    /\ zero_division = {}
    /\ bundle = <<>>

\* a caller handing a similarity matrix of its own to detect_outliers
InitMatrix ==
    /\ phase = "matrix"
    /\ \E n \in 1..MaxRawN :
         /\ responses \in ResponseLists(n, {"raw"})
         /\ similarity_matrix \in SymmetricMatrices(n)
    /\ outlier_flags = <<>>
    /\ flags_source = None
    /\ score = <<>>
    /\ zero_division = {}
    /\ bundle = <<>>

\* a caller handing a matrix and flags of its own to calculate_consensus_score
InitFlags ==
    /\ phase = "flags"
    /\ \E n \in 1..MaxRawN :
         /\ responses \in ResponseLists(n, {"raw"})
         /\ similarity_matrix \in SymmetricMatrices(n)
         /\ outlier_flags \in [1..n -> BOOLEAN]
    /\ flags_source = "caller"
    /\ score = <<>>
    /\ zero_division = {}
    /\ bundle = <<>>

\* ==================== Scoring pipeline: actions ====================
CalculateSemanticSimilarity ==
    /\ phase = "input"
    /\ similarity_matrix' =
         calculate_semantic_similarity([i \in 1..Len(responses) |-> responses[i].response])
    /\ phase' = "matrix"
    /\ UNCHANGED <<responses, outlier_flags, flags_source, score, zero_division, bundle>>
    /\ UNCHANGED agentVars

DetectOutliers ==
    /\ phase = "matrix"
    /\ outlier_flags' = detect_outliers(similarity_matrix)
    /\ flags_source' = "detect_outliers"
    /\ zero_division' = zero_division \cup
         (IF ZScoreDividesByZero(similarity_matrix) THEN {"z_scores"} ELSE {})
    /\ phase' = "flags"
    /\ UNCHANGED <<responses, similarity_matrix, score, bundle>>
    /\ UNCHANGED agentVars

CalculateConsensusScore ==
    /\ phase = "flags"
    /\ score' = calculate_consensus_score(responses, similarity_matrix, outlier_flags)
    /\ zero_division' = zero_division \cup
         (IF /\ ~score'.fail_closed
             /\ TimeCvDividesByZero(responses,
                                    ValidIndices(outlier_flags, Len(outlier_flags)))
          THEN {"time_cv"} ELSE {})
    /\ phase' = "scored"
    /\ UNCHANGED <<responses, similarity_matrix, outlier_flags, flags_source, bundle>>
    /\ UNCHANGED agentVars

GenerateEvidenceBundle ==
    /\ phase = "scored"
    /\ bundle' = generate_evidence_bundle(responses, similarity_matrix,
                                          outlier_flags, score.result)
    /\ phase' = "bundled"
    /\ UNCHANGED <<responses, similarity_matrix, outlier_flags, flags_source,
                   score, zero_division>>
    /\ UNCHANGED agentVars

\* the pipeline run on embedded texts or on a caller's matrix
InitScoring == (InitPipeline \/ InitMatrix) /\ AgentIdle
NextScoring ==
    \/ CalculateSemanticSimilarity
    \/ DetectOutliers
    \/ CalculateConsensusScore
    \/ GenerateEvidenceBundle
SpecScoring == InitScoring /\ [][NextScoring]_vars

\* calculate_consensus_score called directly with a caller's matrix and flags
InitScore == InitFlags /\ AgentIdle
NextScore ==
    \/ CalculateConsensusScore
    \/ GenerateEvidenceBundle
SpecScore == InitScore /\ [][NextScore]_vars


\* ==================== Orchestration: data ====================
\* TrustScore(...) built by _compute_trust_score from the /validate answer
TrustScore(data) ==
    [score |-> data.trustScore,
     consensus_reached |-> data.consensusReached,
     outlier_count |-> data.evidenceBundle.outlierCount,
     avg_similarity |-> data.evidenceBundle.avgSimilarity,
     evidence_cid |-> data.evidenceBundle.ipfsCid]

\* the JSON bodies the validation service may answer /validate with; the
\* service is outside the agent, which reads the fields without checking them
ValidateAnswers ==
    [trustScore : Scores, consensusReached : BOOLEAN, evidenceBundle : EvidenceBundles]

\* the dict appended to validation_history (the wall-clock timestamp is left out)
HistoryEntry(r, id, ts) ==
    [prompt |-> r, validation_id |-> id,
     trust_score |-> ts.score, consensus |-> ts.consensus_reached]

\* self.validation_history.append(entry)
HistoryAppendLost(h, e) == h

HistoryAppendFront(h, e) == <<e>> \o h

HistoryAppend(h, e) == Append(h, e)

\* ==================== Orchestration: validate_output ====================
\* validate_output is entered and runs to its first suspension, the POST to /infer
EnterValidateOutput(r) ==
    /\ pc[r] = "idle"
    /\ pc' = [pc EXCEPT ![r] = "infer"]
    /\ posts' = [posts EXCEPT ![r].infer = @ + 1]
    /\ dispatched' = Append(dispatched, r)
    /\ UNCHANGED <<validation_id, arrived, returned, validation_history, completed>>

\* /infer answers with a validationId; the coroutine goes on to asyncio.sleep(2)
InferAnswered(r) ==
    /\ pc[r] = "infer"
    /\ validation_id' = [validation_id EXCEPT ![r] = r]
    /\ pc' = [pc EXCEPT ![r] = "sleep"]
    /\ UNCHANGED <<arrived, posts, returned, validation_history, dispatched,
                   completed, monitor, alerts>>
    /\ UNCHANGED scoreVars

\* the /infer request fails or its body has no validationId: the exception
\* leaves validate_output
RaiseFromInfer(r) ==
    /\ pc[r] = "infer"
    /\ pc' = [pc EXCEPT ![r] = "raised"]
    /\ UNCHANGED <<validation_id, arrived, posts, returned, validation_history,
                   dispatched, completed>>

\* a worker of the network delivers its response while the round waits
WorkerResponds(r) ==
    /\ pc[r] = "sleep"
    /\ arrived[r] < MaxWorkers
    /\ arrived' = [arrived EXCEPT ![r] = @ + 1]
    /\ UNCHANGED <<pc, validation_id, posts, returned, validation_history,
                   dispatched, completed, monitor, alerts>>
    /\ UNCHANGED scoreVars

\* the fixed two-second sleep is over; _compute_trust_score posts to /validate
SleepElapsed(r) ==
    /\ pc[r] = "sleep"
    /\ pc' = [pc EXCEPT ![r] = "validate"]
    /\ posts' = [posts EXCEPT ![r].validate = @ + 1]
    /\ UNCHANGED <<validation_id, arrived, returned, validation_history,
                   dispatched, completed, monitor, alerts>>
    /\ UNCHANGED scoreVars

\* /validate answers: the TrustScore is built, the history entry appended and
\* the TrustScore returned, with no suspension in between
ReturnTrustScore(r, data) ==
    /\ pc[r] = "validate"
    /\ returned' = [returned EXCEPT ![r] = TrustScore(data)]
    /\ validation_history' =
         HistoryAppend(validation_history,
                       HistoryEntry(r, validation_id[r], TrustScore(data)))
    /\ completed' = Append(completed, r)
    /\ pc' = [pc EXCEPT ![r] = "returned"]
    /\ UNCHANGED <<validation_id, arrived, posts, dispatched>>

\* the /validate request fails or its body lacks a field: the exception leaves
\* validate_output before anything is appended
RaiseFromValidate(r) ==
    /\ pc[r] = "validate"
    /\ pc' = [pc EXCEPT ![r] = "raised"]
    /\ UNCHANGED <<validation_id, arrived, posts, returned, validation_history,
                   dispatched, completed>>

\* ---- validate_output called directly, each call an asyncio task of its own ----
ValidateOutput(r) ==
    /\ monitor.at = "off"
    /\ EnterValidateOutput(r)
    /\ UNCHANGED <<monitor, alerts>>
    /\ UNCHANGED scoreVars

InferFails(r) ==
    /\ monitor.at = "off"
    /\ RaiseFromInfer(r)
    /\ UNCHANGED <<monitor, alerts>>
    /\ UNCHANGED scoreVars

ValidateAnswered(r) ==
    /\ monitor.at = "off"
    /\ \E data \in ValidateAnswers : ReturnTrustScore(r, data)
    /\ UNCHANGED <<monitor, alerts>>
    /\ UNCHANGED scoreVars

ValidateFails(r) ==
    /\ monitor.at = "off"
    /\ RaiseFromValidate(r)
    /\ UNCHANGED <<monitor, alerts>>
    /\ UNCHANGED scoreVars

\* ==================== Orchestration: monitor_repository ====================
\* one pass of the while loop up to its first suspension: _fetch_repo_summary
\* (a mock that returns at once), then validate_output up to the POST to /infer
MonitorIterate ==
    /\ monitor.at \in {"start", "sleep"}
    /\ monitor.call < MaxRounds
    /\ EnterValidateOutput(monitor.call + 1)
    /\ monitor' = [monitor EXCEPT !.at = "validating", !.call = @ + 1]
    /\ UNCHANGED alerts
    /\ UNCHANGED scoreVars

\* validate_output returns into the loop: the score is compared with the
\* threshold, _send_alert is awaited when it is lower, then the loop sleeps.
\* _send_alert either delivers or raises; nothing in the loop catches it.
MonitorScored ==
    /\ monitor.at = "validating"
    /\ \E data \in ValidateAnswers, delivered \in BOOLEAN :
         /\ ReturnTrustScore(monitor.call, data)
         /\ IF data.trustScore < VALIDATION_THRESHOLD
            THEN /\ alerts' = Append(alerts, [call |-> monitor.call,
                                              score |-> data.trustScore,
                                              delivered |-> delivered])
                 /\ monitor' = IF delivered
                               THEN [monitor EXCEPT !.at = "sleep"]
                               ELSE [monitor EXCEPT !.at = "raised",
                                                    !.error = "_send_alert"]
            ELSE /\ delivered
                 /\ alerts' = alerts
                 /\ monitor' = [monitor EXCEPT !.at = "sleep"]
    /\ UNCHANGED scoreVars

\* validate_output raises inside the loop: the exception leaves monitor_repository
MonitorInferFails ==
    /\ monitor.at = "validating"
    /\ RaiseFromInfer(monitor.call)
    /\ monitor' = [monitor EXCEPT !.at = "raised", !.error = "validate_output"]
    /\ UNCHANGED alerts
    /\ UNCHANGED scoreVars

MonitorValidateFails ==
    /\ monitor.at = "validating"
    /\ RaiseFromValidate(monitor.call)
    /\ monitor' = [monitor EXCEPT !.at = "raised", !.error = "validate_output"]
    /\ UNCHANGED alerts
    /\ UNCHANGED scoreVars

\* ==================== Orchestration: specifications ====================
\* MaxRounds validate_output calls running as concurrent tasks on one agent
InitRounds == ScoringIdle /\ AgentIdle
NextRounds ==
    \E r \in Rounds :
        \/ ValidateOutput(r)
        \/ InferAnswered(r)
        \/ InferFails(r)
        \/ WorkerResponds(r)
        \/ SleepElapsed(r)
        \/ ValidateAnswered(r)
        \/ ValidateFails(r)
SpecRounds == InitRounds /\ [][NextRounds]_vars

\* monitor_repository running alone on the agent, for at most MaxRounds passes
InitMonitor ==
    /\ ScoringIdle
    /\ pc = [r \in Rounds |-> "idle"]
    /\ validation_id = [r \in Rounds |-> None]
    /\ arrived = [r \in Rounds |-> 0]
    /\ posts = [r \in Rounds |-> [infer |-> 0, validate |-> 0]]
    /\ returned = [r \in Rounds |-> <<>>]
    /\ validation_history = <<>>
    /\ dispatched = <<>>
    /\ completed = <<>>
    /\ monitor = [at |-> "start", call |-> 0, error |-> None]
    /\ alerts = <<>>
NextMonitor ==
    \/ MonitorIterate
    \/ MonitorScored
    \/ MonitorInferFails
    \/ MonitorValidateFails
    \/ \E r \in Rounds :
        \/ InferAnswered(r)
        \/ WorkerResponds(r)
        \/ SleepElapsed(r)
SpecMonitor == InitMonitor /\ [][NextMonitor]_vars

\* ==================== Properties of the scoring pipeline ====================
Scored == phase \in {"scored", "bundled"}
Flagged == phase \in {"flags", "scored", "bundled"}
Detected == Flagged /\ flags_source = "detect_outliers"
NoFlag == \A i \in 1..Len(outlier_flags) : ~outlier_flags[i]
AllFlagged == \A i \in 1..Len(outlier_flags) : outlier_flags[i]

\* every pairwise (off-diagonal) similarity of the matrix is the same number
AllPairwiseIdentical(M) ==
    \A i, j, k, l \in 1..Len(M) : (i # j /\ k # l) => M[i][j] = M[k][l]

\* C1: for every symmetric matrix with entries in [-1,1] and diagonal 1 and
\* every flag list, calculate_consensus_score returns an integer in [0,100],
\* and it returns 0 exactly when every response is flagged.
C1_ScoreInRangeZeroIffAllFlagged ==
    Scored =>
        /\ score.result \in 0..100
        /\ (score.result = 0) <=> AllFlagged

\* C3: on a matrix whose pairwise similarities are all identical,
\* detect_outliers returns N flags, all False.
C3_IdenticalSimilaritiesFlagNothing ==
    (Detected /\ AllPairwiseIdentical(similarity_matrix)) =>
        /\ Len(outlier_flags) = Len(similarity_matrix)
        /\ NoFlag

\* three or more responses with identical pairwise similarities went through
\* detect_outliers, whose z-score division had a zero standard deviation
C3_Witness ==
    /\ Detected
    /\ Len(similarity_matrix) >= 3
    /\ AllPairwiseIdentical(similarity_matrix)
    /\ "z_scores" \in zero_division
    /\ NoFlag

\* C4: a round of exactly one response flags nothing, and neither the z-score
\* division nor the coefficient-of-variation division has a zero divisor.
C4_SingleResponseNoZeroDivision ==
    (Scored /\ flags_source = "detect_outliers" /\ Len(responses) = 1) =>
        /\ NoFlag
        /\ zero_division = {}

\* the 5-response scenario: responses 1..4 agree pairwise with similarity
\* >= 0.9 and response 5 has similarity 0.1 to each of them
FourAgreeOneOrthogonal(M) ==
    /\ Len(M) = 5
    /\ \A i, j \in 1..4 : 10 * M[i][j] >= 9 * Scale
    /\ \A i \in 1..4 : 10 * M[i][5] = Scale /\ 10 * M[5][i] = Scale

\* C5: in that scenario detect_outliers flags exactly the fifth response and
\* the consensus-ratio component of the score is 16.
C5_OrthogonalResponseFlagged ==
    (Scored /\ flags_source = "detect_outliers"
            /\ FourAgreeOneOrthogonal(similarity_matrix)) =>
        /\ outlier_flags = <<FALSE, FALSE, FALSE, FALSE, TRUE>>
        /\ score.consensus_score = 16

\* C10: detect_outliers flags strictly fewer than N/4 responses; so nothing is
\* flagged for N <= 4, never every response, and calculate_consensus_score on
\* those flags never takes its "return 0" branch.
C10_FewerThanQuarterFlagged ==
    Detected =>
        /\ 4 * CountTrue(outlier_flags) < Len(similarity_matrix)
        /\ (Len(similarity_matrix) <= 4 => NoFlag)
        /\ ~AllFlagged
        /\ (Scored => ~score.fail_closed)

\* detect_outliers flagged a response and the score was computed on its flags
C10_Witness ==
    /\ Detected
    /\ Scored
    /\ CountTrue(outlier_flags) >= 1
    /\ ~score.fail_closed

\* ==================== Properties of the orchestration ====================
\* the history entries written for call r
EntriesOf(r) ==
    {i \in 1..Len(validation_history) : validation_history[i].prompt = r}

\* position of a call on its one-way path
Rank(p) ==
    CASE p = "idle" -> 0
      [] p = "infer" -> 1
      [] p = "sleep" -> 2
      [] p = "validate" -> 3
      [] p = "returned" -> 4
      [] p = "raised" -> 4

IsPrefix(h, g) ==
    /\ Len(h) <= Len(g)
    /\ \A i \in 1..Len(h) : h[i] = g[i]

\* C2: the consensus verdict of a round - in the returned TrustScore, in the
\* history entry and in the evidence bundle - is true exactly when the round's
\* trust score is at least the validation threshold.
C2_ConsensusIffScoreAtLeastThreshold ==
    /\ \A r \in Rounds : pc[r] = "returned" =>
         (returned[r].consensus_reached <=> returned[r].score >= VALIDATION_THRESHOLD)
    /\ \A i \in 1..Len(validation_history) :
         validation_history[i].consensus <=>
             validation_history[i].trust_score >= VALIDATION_THRESHOLD
    /\ phase = "bundled" =>
         (bundle.consensusReached <=> bundle.trustScore >= VALIDATION_THRESHOLD)

\* C6: a round whose wait ended with fewer than the required number of worker
\* responses is failed: its scoring step is never invoked, it returns no
\* TrustScore and leaves no history entry.
C6_NoQuorumNoScoring ==
    \A r \in Rounds :
        (Rank(pc[r]) >= 3 /\ arrived[r] < MIN_WORKERS) =>
            /\ pc[r] = "raised"
            /\ posts[r].validate = 0
            /\ returned[r] = <<>>
            /\ EntriesOf(r) = {}

\* C7: a round moves one way through request, wait, score, record; it has
\* exactly one history entry if its scoring succeeded and none otherwise; a
\* round that failed returned no TrustScore; no request is sent twice.
C7_RecordedIffScored ==
    \A r \in Rounds :
        /\ Cardinality(EntriesOf(r)) = (IF pc[r] = "returned" THEN 1 ELSE 0)
        /\ pc[r] # "returned" => returned[r] = <<>>
        /\ posts[r].infer <= 1 /\ posts[r].validate <= 1

C7_OneWay ==
    \A r \in Rounds :
        /\ Rank(pc'[r]) >= Rank(pc[r])
        /\ pc[r] \in {"returned", "raised"} => pc'[r] = pc[r]

C7_OneWayOneEntryIffScored ==
    /\ []C7_RecordedIffScored
    /\ [][C7_OneWay]_vars

\* one round was recorded and another failed in its scoring step
C7_Witness ==
    \E r, q \in Rounds :
        /\ pc[r] = "returned" /\ Cardinality(EntriesOf(r)) = 1
        /\ pc[q] = "raised" /\ posts[q].validate = 1 /\ EntriesOf(q) = {}
        /\ Len(validation_history) = 1

\* C8: under concurrent rounds validation_history holds exactly one entry per
\* completed round, in the order in which the rounds completed scoring, and an
\* append never changes or removes the entries already there.
C8_HistoryIsCompletionOrder ==
    /\ Len(validation_history) = Len(completed)
    /\ \A i \in 1..Len(completed) :
         /\ validation_history[i].prompt = completed[i]
         /\ validation_history[i].trust_score = returned[completed[i]].score
    /\ \A i, j \in 1..Len(validation_history) :
         validation_history[i].prompt = validation_history[j].prompt => i = j

C8_AppendOnly == IsPrefix(validation_history, validation_history')

C8_ConcurrentAppends ==
    /\ []C8_HistoryIsCompletionOrder
    /\ [][C8_AppendOnly]_vars

\* two rounds were recorded in the opposite order to their dispatch
C8_Witness ==
    /\ Len(validation_history) = 2
    /\ Len(dispatched) >= 2
    /\ validation_history[1].prompt = dispatched[2]
    /\ validation_history[2].prompt = dispatched[1]

\* the calls of the monitor whose pass through the loop body is over
PassOver(r) ==
    /\ r <= monitor.call
    /\ r = monitor.call => monitor.at \in {"sleep", "raised"}
    /\ pc[r] = "returned"

\* C9: the monitor sends an alert after a round exactly when the round's score
\* is below the threshold, and a failing _send_alert is swallowed: the round's
\* history entry stays and no error leaves the monitoring loop.
C9_AlertIffLowAndFailureSwallowed ==
    /\ \A r \in Rounds : PassOver(r) =>
         ((\E i \in 1..Len(alerts) : alerts[i].call = r)
             <=> returned[r].score < VALIDATION_THRESHOLD)
    /\ \A i \in 1..Len(alerts) : EntriesOf(alerts[i].call) # {}
    /\ monitor.error # "_send_alert"

====
